---- MODULE Spec2Model ----
(***************************************************************************)
(* The prediction / recommendation pipeline of app.py: the predictions     *)
(* table, the /predict handler, the four per-record pages, the history     *)
(* page and the PDF report, together with the pure helpers                  *)
(* predict_soil_values, get_weather and predict_irrigation.                 *)
(*                                                                         *)
(* Conventions.                                                            *)
(*  - A Python str that the code transforms (lower, capitalize, +, float)  *)
(*    is a sequence of character codes, so that the transformation is      *)
(*    computed and not assumed.  Opaque texts are TLA+ strings.            *)
(*  - A Python float / SQLite REAL is a record [k, v]: k = "num" with v    *)
(*    the value in hundredths, k = "nan" for NaN, k = "null" for SQL NULL  *)
(*    (Python None read back from a REAL column).                          *)
(*  - A helper that can raise returns [exc, val]; exc = "" means it        *)
(*    returned val.  A handler's result is the HTTP response Flask sends.  *)
(*  - The created_at column (wall-clock text) is not modelled; no          *)
(*    operation reads it except to copy it into a page.                    *)
(***************************************************************************)
EXTENDS Integers, Sequences, FiniteSets, TLC

VARIABLES predictions,      \* rows of the predictions table (a set keyed by id)
          sqlite_sequence,  \* AUTOINCREMENT counter of the predictions table
          hashSeed,         \* per-process key of the built-in str hash
          resp,             \* the last request and the response it got
          submitted         \* history: the submissions that inserted a row

vars == <<predictions, sqlite_sequence, hashSeed, resp, submitted>>

(***************************** bounds **************************************)
MaxPredictions == 2
HashBits == 16

(*************************** string literals *******************************)
s_Rice == <<82, 105, 99, 101>>
s_RICE == <<82, 73, 67, 69>>
s_rice == <<114, 105, 99, 101>>
s_wheat == <<119, 104, 101, 97, 116>>
s_Maize == <<77, 97, 105, 122, 101>>
s_clay == <<99, 108, 97, 121>>
s_Clay == <<67, 108, 97, 121>>
s_Austin == <<65, 117, 115, 116, 105, 110>>
s_Pune == <<80, 117, 110, 101>>
s_2_5 == <<50, 46, 53>>
s_minus1 == <<45, 49>>
s_0 == <<48>>
s_abc == <<97, 98, 99>>
s_nan == <<110, 97, 110>>
s_Rain == <<82, 97, 105, 110>>
s_Smoke == <<83, 109, 111, 107, 101>>
s_clear == <<99, 108, 101, 97, 114>>
s_clouds == <<99, 108, 111, 117, 100, 115>>
s_cloudy == <<99, 108, 111, 117, 100, 121>>
s_rain == <<114, 97, 105, 110>>
s_rainy == <<114, 97, 105, 110, 121>>
s_mist == <<109, 105, 115, 116>>
s_haze == <<104, 97, 122, 101>>
s_fog == <<102, 111, 103>>
s_Flood == <<70, 108, 111, 111, 100>>
s_Drip == <<68, 114, 105, 112>>
s_Sprinkler == <<83, 112, 114, 105, 110, 107, 108, 101, 114>>
s_Furrow == <<70, 117, 114, 114, 111, 119>>
s_weather_dir == <<119, 101, 97, 116, 104, 101, 114, 47>>
s_irrigation_dir == <<105, 114, 114, 105, 103, 97, 116, 105, 111, 110, 47>>
s_jpg == <<46, 106, 112, 103>>
s_Carbofuran == <<67, 97, 114, 98, 111, 102, 117, 114, 97, 110>>
s_Mancozeb == <<77, 97, 110, 99, 111, 122, 101, 98>>

(*************************** Python built-ins ******************************)
\* str.lower() on ASCII text
lower(s) == [i \in 1..Len(s) |-> IF s[i] \in 65..90 THEN s[i] + 32 ELSE s[i]]

\* str.upper() on ASCII text
upper(s) == [i \in 1..Len(s) |-> IF s[i] \in 97..122 THEN s[i] - 32 ELSE s[i]]

\* str.capitalize(): first character upper-cased, the rest lower-cased
capitalize(s) ==
    IF s = <<>> THEN <<>> ELSE upper(<<s[1]>>) \o lower(Tail(s))

abs(n) == IF n < 0 THEN -n ELSE n

NaN == [k |-> "nan", v |-> 0]
NULL == [k |-> "null", v |-> 0]
Num(h) == [k |-> "num", v |-> h]

Return(x) == [exc |-> "", val |-> x]
Throw(e) == [exc |-> e, val |-> NaN]

RECURSIVE DigitsValue(_)
DigitsValue(s) ==
    IF s = <<>> THEN 0
    ELSE DigitsValue(SubSeq(s, 1, Len(s) - 1)) * 10 + (s[Len(s)] - 48)

AllDigits(s) == \A i \in 1..Len(s) : s[i] \in 48..57

\* float(str): [sign] digits [. digits] or "nan"; anything else raises
\* ValueError.  The value is kept to two fractional digits.
float(s) ==
    LET signed == Len(s) > 0 /\ s[1] \in {43, 45}
        neg == Len(s) > 0 /\ s[1] = 45
        body == IF signed THEN Tail(s) ELSE s
        dots == {i \in 1..Len(body) : body[i] = 46}
        dot == IF dots = {} THEN Len(body) + 1 ELSE CHOOSE i \in dots : TRUE
        ip == SubSeq(body, 1, dot - 1)
        fp == SubSeq(body, dot + 1, Len(body))
        d1 == IF Len(fp) >= 1 THEN fp[1] - 48 ELSE 0
        d2 == IF Len(fp) >= 2 THEN fp[2] - 48 ELSE 0
        mag == DigitsValue(ip) * 100 + d1 * 10 + d2
    IN  IF lower(body) = s_nan THEN Return(NaN)
        ELSE IF \/ Cardinality(dots) > 1
                \/ ~AllDigits(ip) \/ ~AllDigits(fp)
                \/ (ip = <<>> /\ fp = <<>>)
             THEN Throw("ValueError")
        ELSE Return(Num(IF neg THEN -mag ELSE mag))

\* n / d rounded to the nearest integer, ties to even (d > 0)
RoundDiv(n, d) ==
    LET q == n \div d
        r == n - q * d
    IN  IF 2 * r < d THEN q
        ELSE IF 2 * r > d THEN q + 1
        ELSE IF q % 2 = 0 THEN q ELSE q + 1

\* what sqlite3 stores for a float bound to a REAL column: NaN becomes NULL
SqlReal(f) == IF f.k = "nan" THEN NULL ELSE f

(***************************** reference data ******************************)
\* data/crop_yield.csv: columns Item, Value
CropYieldTable ==
    << [Item |-> s_Rice, Value |-> 4000],
       [Item |-> s_rice, Value |-> 4001],
       [Item |-> s_wheat, Value |-> 3000],
       [Item |-> s_RICE, Value |-> 4001] >>

\* pesticides.csv: columns crop, pesticide
PesticideTable ==
    << [crop |-> s_Rice, pesticide |-> s_Carbofuran],
       [crop |-> s_wheat, pesticide |-> s_Mancozeb],
       [crop |-> s_rice, pesticide |-> s_Mancozeb] >>

RECURSIVE SumValues(_)
SumValues(rows) ==
    IF rows = <<>> THEN 0 ELSE Head(rows).Value + SumValues(Tail(rows))

\* df[df["Item"].str.lower() == crop.lower()]
MatchingYieldRows(crop) ==
    SelectSeq(CropYieldTable, LAMBDA r : lower(r.Item) = lower(crop))

\* round(df[...]["Value"].mean() * acres, 2): the mean of no rows is NaN
yield_of(crop, acres) ==
    LET rows == MatchingYieldRows(crop)
    IN  IF rows = <<>> \/ acres.k # "num" THEN NaN
        ELSE Num(RoundDiv(SumValues(rows) * acres.v, Len(rows)))

\* df[df["crop"].str.lower() == crop.lower()].to_dict("records")
lookup_pesticides(crop) ==
    SelectSeq(PesticideTable, LAMBDA r : lower(r.crop) = lower(crop))

(******************************* requests **********************************)
Users == {1, 2}
Sessions == {[x \in {} |-> 0]} \cup {[user_id |-> u] : u \in Users}

\* the submissions tried: a known crop, an unknown crop, a known crop in
\* another case with negative acres, zero acres, acres that is no number,
\* and the first one with each field left out in turn
FormFields == {"crop", "soil", "acres", "location"}
SampleForm == [crop |-> s_Rice, soil |-> s_clay, acres |-> s_2_5,
               location |-> s_Austin]
FullForms ==
    { SampleForm,
      [SampleForm EXCEPT !.crop = s_Maize],
      [SampleForm EXCEPT !.crop = s_RICE, !.acres = s_minus1,
                         !.location = s_Pune],
      [SampleForm EXCEPT !.acres = s_0],
      [SampleForm EXCEPT !.acres = s_abc] }
PartialForms ==
    {[f \in FormFields \ {m} |-> SampleForm[f]] : m \in FormFields}
Forms == FullForms \cup PartialForms

\* what the weather provider can answer: no connection, a body that is not
\* JSON, an error document, a document without main.humidity, a document
\* with an empty weather list, and two complete documents
ProviderReplies ==
    { [kind |-> "ConnectionError", status |-> 0, json |-> [empty |-> TRUE]],
      [kind |-> "not_json", status |-> 502, json |-> [empty |-> TRUE]],
      [kind |-> "json", status |-> 404,
       json |-> [cod |-> 404, message |-> "city not found"]],
      [kind |-> "json", status |-> 200,
       json |-> [weather |-> <<[main |-> s_Rain]>>, main |-> [temp |-> 21]]],
      [kind |-> "json", status |-> 200,
       json |-> [weather |-> <<[main |-> s_Rain]>>,
                 main |-> [temp |-> 21, humidity |-> 30]]],
      [kind |-> "json", status |-> 200,
       json |-> [weather |-> <<[main |-> s_Smoke]>>,
                 main |-> [temp |-> 30, humidity |-> 85]]] }

Seeds == {0, 1}

(******************************* responses *********************************)
NoBody == [empty |-> TRUE]
NoRequest == [empty |-> TRUE]

\* Flask turns an exception that escapes a view into a response: an
\* HTTPException (BadRequestKeyError) keeps its own code, anything else is
\* 500 Internal Server Error.  app.py registers no error handler.
handle_exception(e, calls) ==
    [status |-> IF e = "BadRequestKeyError" THEN 400 ELSE 500,
     exc |-> e, body |-> NoBody, calls |-> calls]

Ok(status, body, calls) ==
    [status |-> status, exc |-> "", body |-> body, calls |-> calls]

Reply(op, req, r) ==
    [op |-> op, req |-> req, status |-> r.status, exc |-> r.exc,
     body |-> r.body, calls |-> r.calls]

(***************************** pure helpers ********************************)
RECURSIVE HashFold(_, _)
HashFold(h, s) ==
    IF s = <<>> THEN h
    ELSE HashFold((h * 31 + Head(s)) % (2 ^ HashBits), Tail(s))

\* hash(str): CPython keys its string hash with a secret drawn when the
\* process starts (hash randomisation), and returns a signed integer.  The
\* model keeps that signature, a keyed fold over the characters, at a
\* width of HashBits.
hash(s) ==
    LET u == HashFold((hashSeed * 7919 + 5381) % (2 ^ HashBits), s)
    IN  IF u >= 2 ^ (HashBits - 1) THEN u - 2 ^ HashBits ELSE u

\* base = abs(hash(location + soil_type)) % 100
SoilBase(location, soil_type) == abs(hash(location \o soil_type)) % 100

\* SoilProfile with the pH fraction divided by 10 instead of 20
SoilProfile_wide_pH(base, soil_type) ==
    [type |-> capitalize(soil_type),
     N |-> Num(12000 + base * 120),
     P |-> Num(2500 + base * 60),
     K |-> Num(15000 + base * 200),
     pH |-> Num(550 + ((base % 20) * 100) \div 10)]

\* the dict predict_soil_values builds from base
SoilProfile(base, soil_type) ==
    [type |-> capitalize(soil_type),
     N |-> Num(12000 + base * 120),
     P |-> Num(2500 + base * 60),
     K |-> Num(15000 + base * 200),
     pH |-> Num(550 + ((base % 20) * 100) \div 20)]

predict_soil_values(location, soil_type) ==
    SoilProfile(SoilBase(location, soil_type), soil_type)

\* condition_map.get(api_condition, "clear")
condition_map_get(api_condition) ==
    IF api_condition = s_clear THEN s_clear
    ELSE IF api_condition = s_clouds THEN s_cloudy
    ELSE IF api_condition = s_rain THEN s_rainy
    ELSE IF api_condition \in {s_mist, s_haze, s_fog} THEN s_fog
    ELSE s_clear

\* get_weather(location), given what the provider answers to the request.
\* The HTTP status is not looked at; every subscript can raise.
get_weather(location, reply) ==
    IF reply.kind = "ConnectionError" THEN Throw("ConnectionError")
    ELSE IF reply.kind = "not_json" THEN Throw("JSONDecodeError")
    ELSE
      LET res == reply.json IN
      IF "weather" \notin DOMAIN res THEN Throw("KeyError")
      ELSE IF Len(res.weather) = 0 THEN Throw("IndexError")
      ELSE IF "main" \notin DOMAIN res.weather[1] THEN Throw("KeyError")
      ELSE IF "main" \notin DOMAIN res THEN Throw("KeyError")
      ELSE IF "temp" \notin DOMAIN res.main THEN Throw("KeyError")
      ELSE IF "humidity" \notin DOMAIN res.main THEN Throw("KeyError")
      ELSE
        LET api_condition == lower(res.weather[1].main)
            img_key == condition_map_get(api_condition)
        IN  Return([temp |-> res.main.temp,
                    humidity |-> res.main.humidity,
                    condition |-> res.weather[1].main,
                    image |-> s_weather_dir \o img_key \o s_jpg])

IrrigationSteps ==
    << "Prepare land properly", "Ensure uniform water flow",
       "Avoid over-irrigation", "Monitor soil moisture regularly" >>

\* predict_irrigation with the first comparison made inclusive
predict_irrigation_inclusive(soil, weather) ==
    LET method == IF weather.humidity >= 80 THEN s_Flood
                  ELSE IF soil.pH.v < 650 THEN s_Drip
                  ELSE IF weather.humidity < 40 THEN s_Sprinkler
                  ELSE s_Furrow
    IN  [method |-> method,
         image |-> s_irrigation_dir \o lower(method) \o s_jpg,
         steps |-> IrrigationSteps]

predict_irrigation(soil, weather) ==
    LET method == IF weather.humidity > 80 THEN s_Flood
                  ELSE IF soil.pH.v < 650 THEN s_Drip
                  ELSE IF weather.humidity < 40 THEN s_Sprinkler
                  ELSE s_Furrow
    IN  [method |-> method,
         image |-> s_irrigation_dir \o lower(method) \o s_jpg,
         steps |-> IrrigationSteps]

(******************************** the store ********************************)
None == [py |-> "None"]

\* cur.execute("SELECT * FROM predictions WHERE id=?"); cur.fetchone()
fetchone_by_id(pid) ==
    IF \E r \in predictions : r.id = pid
    THEN CHOOSE r \in predictions : r.id = pid
    ELSE None

Init ==
    /\ predictions = {}
    /\ sqlite_sequence = 0
    /\ hashSeed \in Seeds
    /\ resp = Reply("start", NoRequest, Ok(200, NoBody, 0))
    /\ submitted = <<>>

\* POST /predict
predict(sess, form) ==
    LET req == [session |-> sess, form |-> form]
        fail(e) == /\ resp' = Reply("predict", req, handle_exception(e, 0))
                   /\ UNCHANGED <<predictions, sqlite_sequence, submitted>>
    IN
    /\ sqlite_sequence < MaxPredictions
    /\ UNCHANGED hashSeed
    /\ IF "crop" \notin DOMAIN form THEN fail("BadRequestKeyError")
       ELSE IF "soil" \notin DOMAIN form THEN fail("BadRequestKeyError")
       ELSE IF "acres" \notin DOMAIN form THEN fail("BadRequestKeyError")
       ELSE IF float(form.acres).exc # "" THEN fail(float(form.acres).exc)
       ELSE IF "location" \notin DOMAIN form THEN fail("BadRequestKeyError")
       ELSE IF "user_id" \notin DOMAIN sess THEN fail("KeyError")
       ELSE
         LET crop == form.crop
             soil == form.soil
             acres == float(form.acres).val
             location == form.location
             yield_kg == yield_of(crop, acres)
             pid == sqlite_sequence + 1
             row == [id |-> pid, user_id |-> sess.user_id, crop |-> crop,
                     soil |-> soil, acres |-> SqlReal(acres),
                     location |-> location, yield_kg |-> SqlReal(yield_kg)]
         IN  /\ predictions' = predictions \cup {row}
             /\ sqlite_sequence' = pid
             /\ submitted' = Append(submitted,
                                    [pid |-> pid, session |-> sess, form |-> form])
             /\ resp' = Reply("predict", req,
                              Ok(302, [location |-> "result_page", pid |-> pid], 0))

\* GET /result/<pid>: the template is rendered with whatever fetchone gave
result_page(pid) ==
    /\ resp' = Reply("result_page", [pid |-> pid],
                     Ok(200, [prediction |-> fetchone_by_id(pid)], 0))
    /\ UNCHANGED <<predictions, sqlite_sequence, hashSeed, submitted>>

\* GET /soil/<pid>
soil_page(pid) ==
    LET p == fetchone_by_id(pid)
        r == IF p = None THEN handle_exception("TypeError", 0)
             ELSE Ok(200, [soil |-> predict_soil_values(p.location, p.soil),
                           pid |-> pid], 0)
    IN  /\ resp' = Reply("soil_page", [pid |-> pid], r)
        /\ UNCHANGED <<predictions, sqlite_sequence, hashSeed, submitted>>

\* GET /weather/<pid>
weather_page(pid, reply) ==
    LET p == fetchone_by_id(pid)
        r == IF p = None THEN handle_exception("TypeError", 0)
             ELSE LET weather == get_weather(p.location, reply)
                  IN  IF weather.exc # "" THEN handle_exception(weather.exc, 1)
                      ELSE Ok(200, [weather |-> weather.val, pid |-> pid], 1)
    IN  /\ resp' = Reply("weather_page", [pid |-> pid, reply |-> reply], r)
        /\ UNCHANGED <<predictions, sqlite_sequence, hashSeed, submitted>>

\* GET /irrigation/<pid>
irrigation_page(pid, reply) ==
    LET p == fetchone_by_id(pid)
        r == IF p = None THEN handle_exception("TypeError", 0)
             ELSE LET soil == predict_soil_values(p.location, p.soil)
                      weather == get_weather(p.location, reply)
                  IN  IF weather.exc # "" THEN handle_exception(weather.exc, 1)
                      ELSE LET irrigation == predict_irrigation(soil, weather.val)
                           IN  Ok(200, [method |-> irrigation.method,
                                        irrigation |-> irrigation,
                                        steps |-> irrigation.steps,
                                        pid |-> pid], 1)
    IN  /\ resp' = Reply("irrigation_page", [pid |-> pid, reply |-> reply], r)
        /\ UNCHANGED <<predictions, sqlite_sequence, hashSeed, submitted>>

\* GET /pesticide/<pid>
pesticide_page(pid) ==
    LET prediction == fetchone_by_id(pid)
        r == IF prediction = None THEN handle_exception("TypeError", 0)
             ELSE Ok(200, [prediction |-> prediction,
                           pesticides |-> lookup_pesticides(prediction.crop),
                           pid |-> pid], 0)
    IN  /\ resp' = Reply("pesticide_page", [pid |-> pid], r)
        /\ UNCHANGED <<predictions, sqlite_sequence, hashSeed, submitted>>

\* the rows of a SELECT ... ORDER BY id DESC
RECURSIVE OrderByIdDesc(_)
OrderByIdDesc(rows) ==
    IF rows = {} THEN <<>>
    ELSE LET top == CHOOSE r \in rows : \A q \in rows : q.id <= r.id
         IN  <<top>> \o OrderByIdDesc(rows \ {top})

\* select_by_user without its WHERE clause
select_by_user_no_where(user_id) == OrderByIdDesc(predictions)

\* SELECT ... FROM predictions WHERE user_id=? ORDER BY id DESC
select_by_user(user_id) ==
    OrderByIdDesc({r \in predictions : r.user_id = user_id})

\* the columns the history query selects
HistoryColumns(r) ==
    [crop |-> r.crop, soil |-> r.soil, location |-> r.location,
     acres |-> r.acres, yield_kg |-> r.yield_kg]

\* GET /past-predictions
past_predictions(sess) ==
    LET r == IF "user_id" \notin DOMAIN sess THEN handle_exception("KeyError", 0)
             ELSE LET rows == select_by_user(sess.user_id)
                      records == [i \in 1..Len(rows) |-> HistoryColumns(rows[i])]
                      pid == IF Len(rows) > 0 THEN rows[1].id ELSE 1
                  IN  Ok(200, [records |-> records, pid |-> pid], 0)
    IN  /\ resp' = Reply("past_predictions", [session |-> sess], r)
        /\ UNCHANGED <<predictions, sqlite_sequence, hashSeed, submitted>>

\* GET /download-pdf/<pid>
download_pdf(pid, reply) ==
    LET p == fetchone_by_id(pid)
        r == IF p = None THEN handle_exception("TypeError", 0)
             ELSE LET soil == predict_soil_values(p.location, p.soil)
                      weather == get_weather(p.location, reply)
                  IN  IF weather.exc # "" THEN handle_exception(weather.exc, 1)
                      ELSE LET irrigation == predict_irrigation(soil, weather.val)
                               data == [crop |-> p.crop,
                                        location |-> p.location,
                                        acres |-> p.acres,
                                        yield_kg |-> p.yield_kg,
                                        soil |-> soil,
                                        weather |-> weather.val,
                                        irrigation |-> irrigation,
                                        pesticides |-> lookup_pesticides(p.crop)]
                           IN  Ok(200, data, 1)
    IN  /\ resp' = Reply("download_pdf", [pid |-> pid, reply |-> reply], r)
        /\ UNCHANGED <<predictions, sqlite_sequence, hashSeed, submitted>>

\* the server process is started again: the database file stays, the hash
\* key is drawn afresh
Restart ==
    /\ hashSeed' \in Seeds
    /\ resp' = Reply("start", NoRequest, Ok(200, NoBody, 0))
    /\ UNCHANGED <<predictions, sqlite_sequence, submitted>>

\* ids a client can ask for: every id handed out, and one never handed out
Pids == 1..(sqlite_sequence + 1)

Next ==
    \/ \E sess \in Sessions, form \in Forms : predict(sess, form)
    \/ \E pid \in Pids : result_page(pid)
    \/ \E pid \in Pids : soil_page(pid)
    \/ \E pid \in Pids, reply \in ProviderReplies : weather_page(pid, reply)
    \/ \E pid \in Pids, reply \in ProviderReplies : irrigation_page(pid, reply)
    \/ \E pid \in Pids : pesticide_page(pid)
    \/ \E sess \in Sessions : past_predictions(sess)
    \/ \E pid \in Pids, reply \in ProviderReplies : download_pdf(pid, reply)
    \/ Restart

Spec == Init /\ [][Next]_vars

(************************ the irrigation rule alone ************************)
PHValues == {0, 550, 600, 645, 649, 650, 651, 700, 845, 1400}
Humidities == {0, 39, 40, 41, 60, 79, 80, 81, 85, 100}

\* predict_irrigation applied to an arbitrary soil profile and snapshot
call_predict_irrigation(pH, humidity) ==
    LET soil == [type |-> s_Clay, N |-> Num(12000), P |-> Num(2500),
                 K |-> Num(15000), pH |-> Num(pH)]
        weather == [temp |-> 21, humidity |-> humidity, condition |-> s_Rain,
                    image |-> s_weather_dir \o s_rainy \o s_jpg]
    IN  /\ resp' = Reply("predict_irrigation",
                         [soil |-> soil, weather |-> weather],
                         Ok(200, predict_irrigation(soil, weather), 0))
        /\ UNCHANGED <<predictions, sqlite_sequence, hashSeed, submitted>>

NextIrrigation ==
    \E pH \in PHValues, humidity \in Humidities :
        call_predict_irrigation(pH, humidity)

SpecIrrigation == Init /\ [][NextIrrigation]_vars

(********************************* claims **********************************)
Methods == {s_Flood, s_Drip, s_Sprinkler, s_Furrow}
RecordViews == {"soil_page", "weather_page", "irrigation_page",
                "pesticide_page", "download_pdf"}
WeatherViews == {"weather_page", "irrigation_page", "download_pdf"}

\* C1: predict_irrigation returns exactly one of the four methods, chosen by
\* first match of humidity > 80, pH < 6.5, humidity < 40, else Furrow; the
\* comparisons are strict, so humidity 80, pH 6.5 and humidity 40 fall
\* through to the next rule, and humidity > 80 gives Flood whatever the pH.
C1_IrrigationRule ==
    resp.op = "predict_irrigation" =>
        LET h == resp.req.weather.humidity
            pH == resp.req.soil.pH.v
            m == resp.body.method
        IN  /\ resp.exc = ""
            /\ m \in Methods
            /\ (m = s_Flood) <=> (h > 80)
            /\ (m = s_Drip) <=> (h <= 80 /\ pH < 650)
            /\ (m = s_Sprinkler) <=> (h < 40 /\ pH >= 650)
            /\ (m = s_Furrow) <=> (h >= 40 /\ h <= 80 /\ pH >= 650)
            /\ (h = 80 => m # s_Flood)
            /\ (pH = 650 => m # s_Drip)
            /\ (h = 40 => m # s_Sprinkler)

C1_Witness ==
    /\ resp.op = "predict_irrigation"
    /\ resp.req.weather.humidity = 80
    /\ resp.req.soil.pH.v = 650
    /\ resp.body.method = s_Furrow

\* C2: a submission whose crop matches no row of the yield table is
\* rejected, and the table never holds a row whose yield is undefined or
\* whose crop has no row in the yield table.
C2_UnknownCropRejected ==
    /\ (resp.op = "predict" /\ "crop" \in DOMAIN resp.req.form
            /\ MatchingYieldRows(resp.req.form.crop) = <<>>)
        => resp.status # 302
    /\ \A r \in predictions :
            r.yield_kg.k = "num" /\ MatchingYieldRows(r.crop) # <<>>

\* C3: for an id that is not in the table, the four views and the report
\* end in NotFound, not in an unhandled fault, and call no weather provider.
C3_UnknownIdIsNotFound ==
    (resp.op \in RecordViews /\ ~(\E r \in predictions : r.id = resp.req.pid))
        => (resp.status = 404 /\ resp.exc = "" /\ resp.calls = 0)

ProviderFailed(reply) ==
    \/ reply.kind # "json"
    \/ reply.status # 200
    \/ "weather" \notin DOMAIN reply.json
    \/ "main" \notin DOMAIN reply.json
    \/ Len(reply.json.weather) = 0
    \/ "main" \notin DOMAIN reply.json.weather[1]
    \/ {"temp", "humidity"} \ DOMAIN reply.json.main # {}

\* C4: when the weather provider fails, the weather page, the irrigation
\* page and the report do not end in an unhandled fault.
C4_WeatherFailureHandled ==
    (/\ resp.op \in WeatherViews
     /\ \E r \in predictions : r.id = resp.req.pid
     /\ ProviderFailed(resp.req.reply))
        => (resp.status # 500 /\ resp.exc = "")

\* C5: every record created by a submission is fetched back with crop,
\* soil, acres, location and owner equal to the submitted ones and with
\* yield round(mean unit yield of the crop x acres, 2), at any later time.
C5_StoredMatchesSubmitted ==
    \A i \in 1..Len(submitted) :
        LET e == submitted[i]
            row == fetchone_by_id(e.pid)
            rows == MatchingYieldRows(e.form.crop)
            acres == float(e.form.acres).val
        IN  /\ row # None
            /\ row.crop = e.form.crop
            /\ row.soil = e.form.soil
            /\ row.location = e.form.location
            /\ row.user_id = e.session.user_id
            /\ row.acres = acres
            /\ rows # <<>>
            /\ row.yield_kg = Num(RoundDiv(SumValues(rows) * acres.v, Len(rows)))

\* C6: the history page of user u lists exactly the N records u created,
\* newest first: the k-th entry is u's (N-k+1)-th submission, ids strictly
\* descending, and ids are unique and increase in creation order.
C6_HistoryNewestFirst ==
    /\ \A i, j \in 1..Len(submitted) : i < j => submitted[i].pid < submitted[j].pid
    /\ \A r, q \in predictions : r.id = q.id => r = q
    /\ (resp.op = "past_predictions" /\ resp.status = 200) =>
        LET u == resp.req.session.user_id
            mine == SelectSeq(submitted, LAMBDA e : e.session.user_id = u)
            N == Len(mine)
            records == resp.body.records
        IN  /\ Len(records) = N
            /\ \A k \in 1..N :
                LET e == mine[N - k + 1]
                    row == fetchone_by_id(e.pid)
                IN  /\ row.user_id = u
                    /\ records[k].crop = e.form.crop
                    /\ records[k].soil = e.form.soil
                    /\ records[k].location = e.form.location
                    /\ records[k].acres = row.acres
                    /\ records[k].yield_kg = row.yield_kg
            /\ \A k \in 1..(N - 1) : mine[N - k + 1].pid > mine[N - k].pid

C6_Witness ==
    /\ resp.op = "past_predictions"
    /\ resp.status = 200
    /\ Len(resp.body.records) = 1
    /\ Cardinality(predictions) = 2
    /\ resp.body.records[1].location = s_Pune

\* C7: the most recent id shown on the history page is the newest record of
\* that user, and no id is given when the user owns no record.
C7_MostRecentId ==
    (resp.op = "past_predictions" /\ resp.status = 200) =>
        LET owned == {r \in predictions : r.user_id = resp.req.session.user_id}
        IN  IF owned = {} THEN "pid" \notin DOMAIN resp.body
            ELSE /\ resp.body.pid \in {r.id : r \in owned}
                 /\ \A r \in owned : r.id <= resp.body.pid

InvalidSubmission(sess, form) ==
    \/ FormFields \ DOMAIN form # {}
    \/ "user_id" \notin DOMAIN sess
    \/ /\ float(form.acres).exc = ""
       /\ float(form.acres).val.k = "num"
       /\ float(form.acres).val.v <= 0

\* C8: a submission with non-positive acres or a missing required field
\* ends in a validation failure shown to the user, and creates no record.
C8_InvalidSubmissionRejected ==
    /\ (resp.op = "predict"
            /\ InvalidSubmission(resp.req.session, resp.req.form))
        => resp.status \notin {302, 500}
    /\ \A i \in 1..Len(submitted) :
            ~InvalidSubmission(submitted[i].session, submitted[i].form)

\* C9: for every (location, soil type), predict_soil_values gives the same
\* quadruple on every call, within a process run and across runs.
C9_SoilStableAcrossRuns ==
    [][\A l \in {s_Austin, s_Pune}, t \in {s_clay} :
           predict_soil_values(l, t)' = predict_soil_values(l, t)]_vars

\* C10: in the irrigation page and the report, where the soil profile is
\* the output of predict_soil_values, pH lies in [5.5, 6.45], so the method
\* is Flood when humidity > 80 and Drip otherwise.
C10_ComposedFloodOrDrip ==
    /\ \A base \in 0..99 :
            /\ SoilProfile(base, s_clay).pH.v >= 550
            /\ SoilProfile(base, s_clay).pH.v <= 645
    /\ \A r \in predictions : SoilBase(r.location, r.soil) \in 0..99
    /\ (resp.op = "download_pdf" /\ resp.status = 200) =>
            /\ resp.body.soil.pH.v \in 550..645
            /\ resp.body.irrigation.method =
                  IF resp.body.weather.humidity > 80 THEN s_Flood ELSE s_Drip
            /\ resp.body.weather.humidity = resp.req.reply.json.main.humidity
    /\ (resp.op = "irrigation_page" /\ resp.status = 200) =>
            resp.body.method =
                IF resp.req.reply.json.main.humidity > 80 THEN s_Flood
                ELSE s_Drip

C10_Witness ==
    /\ resp.op = "irrigation_page"
    /\ resp.status = 200
    /\ resp.req.reply.json.main.humidity = 30
    /\ resp.body.method = s_Drip

====
